---- MODULE Spec2Model ----
(***************************************************************************)
(* State-machine model of src/src/App.tsx: the React component App, its    *)
(* four pieces of state, the two event listeners registered at mount, the  *)
(* three async handlers that invoke the Tauri backend, and what the        *)
(* component renders from its state.                                       *)
(*                                                                         *)
(* An `await invoke(...)` splits a handler in two steps: the part that     *)
(* runs on the click (up to the await) and the continuation that runs when *)
(* the promise settles (the rest of the try block, or the catch block).    *)
(* Promises in flight are counted per command in `pending`; promises of    *)
(* the same command run the same continuation, so a count is enough.       *)
(***************************************************************************)
EXTENDS Integers, Sequences, FiniteSets, TLC

VARIABLES
    isDetecting,     \* useState(false), App.tsx:15
    hasPermissions,  \* useState(false), App.tsx:16
    selectedTexts,   \* useState<SelectionEvent[]>([]), App.tsx:17
    status,          \* useState("Ready"), App.tsx:18
    pending,         \* invoke() promises not yet settled, per command
    now,             \* Date.now(), in milliseconds
    received,        \* history: every event inserted, in order of arrival
    lastCheck,       \* history: what the last check_permissions to resolve returned
    lastOp           \* history: the handler step that ran last

vars == <<isDetecting, hasPermissions, selectedTexts, status, pending, now,
          received, lastCheck, lastOp>>

uiState == <<isDetecting, hasPermissions, selectedTexts, status>>

----------------------------------------------------------------------------
(* Bounds of the model *)

MaxEvents == 2       \* events received in Spec
MaxListEvents == 11  \* events received in SpecList
MaxInFlight == 2     \* invoke() promises in flight at once
MaxTicks == 2        \* advances of the clock
TickMs == 1500       \* milliseconds per advance of the clock

(* Program constants *)

SliceEnd == 9        \* prev.slice(0, 9)
MsPerSecond == 1000  \* Date.now() / 1000

----------------------------------------------------------------------------
(* Values *)

CheckCmd == "check_permissions"
StartCmd == "start_text_detection"
StopCmd == "stop_text_detection"
Commands == {CheckCmd, StartCmd, StopCmd}

\* What the backend answers to start_text_detection and stop_text_detection.
StartResults == {"Text detection started"}
StopResults == {"Text detection stopped"}

\* Rejection reasons: a JavaScript value, a string or an object.
Errors ==
    { [type |-> "string", str |-> "Accessibility denied"],
      [type |-> "object", str |-> ""] }

\* `${error}`: a string converts to itself, a plain object to "[object Object]".
JsString(v) ==
    IF v.type = "string" THEN v.str ELSE "[object Object]"

\* A number of seconds with a fraction, as <<whole seconds, milliseconds>>.
Seconds(ms) == <<ms \div MsPerSecond, ms % MsPerSecond>>

\* SelectionEvent payloads the backend emits on "text-selection-changed".
\* The later of the two carries the earlier capture time.
Payloads ==
    { [text |-> "alpha", app_name |-> "Safari",
       timestamp |-> <<7, 250>>, selection_type |-> "Hovered"],
      [text |-> "beta", app_name |-> "Notes",
       timestamp |-> <<2, 0>>, selection_type |-> "Focused"] }

\* Raw strings the backend emits on "hotkey-selection-detected".
HotkeyTexts == {"gamma"}

----------------------------------------------------------------------------
(* Array helpers *)

Min(a, b) == IF a < b THEN a ELSE b

\* Array.prototype.slice(0, end)
Slice0(arr, end) == SubSeq(arr, 1, Min(end, Len(arr)))

Reverse(s) == [i \in 1..Len(s) |-> s[Len(s) + 1 - i]]

LastN(s, n) == SubSeq(s, Len(s) - n + 1, Len(s))

InFlight == pending[CheckCmd] + pending[StartCmd] + pending[StopCmd]

Issue(cmd) == [pending EXCEPT ![cmd] = @ + 1]
Settle(cmd) == [pending EXCEPT ![cmd] = @ - 1]

----------------------------------------------------------------------------
(* State after the first render and the mount effect: the state hooks hold *)
(* their initial values and checkPermissions() has been called once.       *)

Init ==
    /\ isDetecting = FALSE
    /\ hasPermissions = FALSE
    /\ selectedTexts = <<>>
    /\ status = "Ready"
    /\ pending = [c \in Commands |-> IF c = CheckCmd THEN 1 ELSE 0]
    /\ now = 0
    /\ received = <<>>
    /\ lastCheck = "none"
    /\ lastOp = [op |-> "issue", cmd |-> CheckCmd]

----------------------------------------------------------------------------
(* Event listeners *)

\* Mutant: the slice keeps one element too many, prev.slice(0, 10).
OnTextSelectionChanged_SliceTen(payload) ==
    /\ selectedTexts' = <<payload>> \o Slice0(selectedTexts, SliceEnd + 1)
    /\ received' = Append(received, payload)
    /\ lastOp' = [op |-> "structured", payload |-> payload]
    /\ UNCHANGED <<isDetecting, hasPermissions, status, pending, now, lastCheck>>

\* listen("text-selection-changed", ...)
OnTextSelectionChanged(payload) ==
    /\ selectedTexts' = <<payload>> \o Slice0(selectedTexts, SliceEnd)
    /\ received' = Append(received, payload)
    /\ lastOp' = [op |-> "structured", payload |-> payload]
    /\ UNCHANGED <<isDetecting, hasPermissions, status, pending, now, lastCheck>>

\* Mutant: the division is forgotten, timestamp: Date.now().
HotkeySelectionEvent_Millis(text) ==
    [text |-> text, app_name |-> "Unknown (Hotkey)",
     timestamp |-> <<now, 0>>, selection_type |-> "Selected"]

\* The SelectionEvent the hotkey listener builds from a raw string.
HotkeySelectionEvent(text) ==
    [text |-> text, app_name |-> "Unknown (Hotkey)",
     timestamp |-> Seconds(now), selection_type |-> "Selected"]

\* Mutant: the event is appended, [...prev.slice(0, 9), selectionEvent].
OnHotkeySelectionDetected_Appends(text) ==
    /\ selectedTexts' = Slice0(selectedTexts, SliceEnd) \o <<HotkeySelectionEvent(text)>>
    /\ received' = Append(received, HotkeySelectionEvent(text))
    /\ lastOp' = [op |-> "hotkey", text |-> text, at |-> now]
    /\ UNCHANGED <<isDetecting, hasPermissions, status, pending, now, lastCheck>>

\* Mutant: the listener also writes the status line.
OnHotkeySelectionDetected_SetsStatus(text) ==
    /\ selectedTexts' = <<HotkeySelectionEvent(text)>> \o Slice0(selectedTexts, SliceEnd)
    /\ received' = Append(received, HotkeySelectionEvent(text))
    /\ status' = "Hotkey selection"
    /\ lastOp' = [op |-> "hotkey", text |-> text, at |-> now]
    /\ UNCHANGED <<isDetecting, hasPermissions, pending, now, lastCheck>>

\* listen("hotkey-selection-detected", ...)
OnHotkeySelectionDetected(text) ==
    /\ selectedTexts' = <<HotkeySelectionEvent(text)>> \o Slice0(selectedTexts, SliceEnd)
    /\ received' = Append(received, HotkeySelectionEvent(text))
    /\ lastOp' = [op |-> "hotkey", text |-> text, at |-> now]
    /\ UNCHANGED <<isDetecting, hasPermissions, status, pending, now, lastCheck>>

\* Time passes.
Tick ==
    /\ now < MaxTicks * TickMs
    /\ now' = now + TickMs
    /\ UNCHANGED <<uiState, pending, received, lastCheck, lastOp>>

----------------------------------------------------------------------------
(* What the component renders *)

\* {!isDetecting ? <button className="start-btn" .../> : <button className="stop-btn" .../>}
Controls == IF ~isDetecting THEN "start-btn" ELSE "stop-btn"
StartShown == Controls = "start-btn"
StopShown == Controls = "stop-btn"
StartDisabled == ~hasPermissions
PermissionIndicator == IF hasPermissions THEN "Granted" ELSE "Not granted"

----------------------------------------------------------------------------
(* checkPermissions *)

\* The Refresh button is always rendered and enabled.
ClickRefresh ==
    /\ InFlight < MaxInFlight
    /\ pending' = Issue(CheckCmd)
    /\ lastOp' = [op |-> "issue", cmd |-> CheckCmd]
    /\ UNCHANGED <<uiState, now, received, lastCheck>>

CheckPermissionsResolved(permissions) ==
    /\ pending[CheckCmd] > 0
    /\ pending' = Settle(CheckCmd)
    /\ hasPermissions' = permissions
    /\ status' = IF permissions THEN "Permissions granted" ELSE "Permissions needed"
    /\ lastCheck' = IF permissions THEN "true" ELSE "false"
    /\ lastOp' = [op |-> "resolve", cmd |-> CheckCmd, flag |-> permissions]
    /\ UNCHANGED <<isDetecting, selectedTexts, now, received>>

\* Mutant: the catch block resets the indicator, setHasPermissions(false).
CheckPermissionsRejected_ClearsIndicator(error) ==
    /\ pending[CheckCmd] > 0
    /\ pending' = Settle(CheckCmd)
    /\ hasPermissions' = FALSE
    /\ status' = "Error checking permissions"
    /\ lastOp' = [op |-> "reject", cmd |-> CheckCmd, error |-> error]
    /\ UNCHANGED <<isDetecting, selectedTexts, now, received, lastCheck>>

CheckPermissionsRejected(error) ==
    /\ pending[CheckCmd] > 0
    /\ pending' = Settle(CheckCmd)
    /\ status' = "Error checking permissions"
    /\ lastOp' = [op |-> "reject", cmd |-> CheckCmd, error |-> error]
    /\ UNCHANGED <<isDetecting, hasPermissions, selectedTexts, now, received, lastCheck>>

----------------------------------------------------------------------------
(* startDetection *)

\* Mutant: the button lacks disabled={!hasPermissions}.
ClickStart_IgnoresDisabled ==
    /\ StartShown
    /\ InFlight < MaxInFlight
    /\ status' = "Starting detection..."
    /\ pending' = Issue(StartCmd)
    /\ lastOp' = [op |-> "issue", cmd |-> StartCmd]
    /\ UNCHANGED <<isDetecting, hasPermissions, selectedTexts, now, received, lastCheck>>

\* The start button is rendered when !isDetecting, disabled when !hasPermissions.
ClickStart ==
    /\ StartShown
    /\ ~StartDisabled
    /\ InFlight < MaxInFlight
    /\ status' = "Starting detection..."
    /\ pending' = Issue(StartCmd)
    /\ lastOp' = [op |-> "issue", cmd |-> StartCmd]
    /\ UNCHANGED <<isDetecting, hasPermissions, selectedTexts, now, received, lastCheck>>

\* Mutant: setIsDetecting(true) is missing.
StartDetectionResolved_KeepsFlag(result) ==
    /\ pending[StartCmd] > 0
    /\ pending' = Settle(StartCmd)
    /\ status' = result
    /\ lastOp' = [op |-> "resolve", cmd |-> StartCmd, result |-> result]
    /\ UNCHANGED <<isDetecting, hasPermissions, selectedTexts, now, received, lastCheck>>

StartDetectionResolved(result) ==
    /\ pending[StartCmd] > 0
    /\ pending' = Settle(StartCmd)
    /\ isDetecting' = TRUE
    /\ status' = result
    /\ lastOp' = [op |-> "resolve", cmd |-> StartCmd, result |-> result]
    /\ UNCHANGED <<hasPermissions, selectedTexts, now, received, lastCheck>>

\* Mutant: the catch block shows a fixed message.
StartDetectionRejected_GenericStatus(error) ==
    /\ pending[StartCmd] > 0
    /\ pending' = Settle(StartCmd)
    /\ status' = "Error starting detection"
    /\ lastOp' = [op |-> "reject", cmd |-> StartCmd, error |-> error]
    /\ UNCHANGED <<isDetecting, hasPermissions, selectedTexts, now, received, lastCheck>>

\* Mutant: the catch block resets the flag, setIsDetecting(false).
StartDetectionRejected_ClearsFlag(error) ==
    /\ pending[StartCmd] > 0
    /\ pending' = Settle(StartCmd)
    /\ isDetecting' = FALSE
    /\ status' = "Error: " \o JsString(error)
    /\ lastOp' = [op |-> "reject", cmd |-> StartCmd, error |-> error]
    /\ UNCHANGED <<hasPermissions, selectedTexts, now, received, lastCheck>>

StartDetectionRejected(error) ==
    /\ pending[StartCmd] > 0
    /\ pending' = Settle(StartCmd)
    /\ status' = "Error: " \o JsString(error)
    /\ lastOp' = [op |-> "reject", cmd |-> StartCmd, error |-> error]
    /\ UNCHANGED <<isDetecting, hasPermissions, selectedTexts, now, received, lastCheck>>

----------------------------------------------------------------------------
(* stopDetection *)

\* The stop button is rendered when isDetecting.
ClickStop ==
    /\ StopShown
    /\ InFlight < MaxInFlight
    /\ status' = "Stopping detection..."
    /\ pending' = Issue(StopCmd)
    /\ lastOp' = [op |-> "issue", cmd |-> StopCmd]
    /\ UNCHANGED <<isDetecting, hasPermissions, selectedTexts, now, received, lastCheck>>

\* Mutant: a successful stop also empties the list, setSelectedTexts([]).
StopDetectionResolved_ClearsList(result) ==
    /\ pending[StopCmd] > 0
    /\ pending' = Settle(StopCmd)
    /\ isDetecting' = FALSE
    /\ selectedTexts' = <<>>
    /\ status' = result
    /\ lastOp' = [op |-> "resolve", cmd |-> StopCmd, result |-> result]
    /\ UNCHANGED <<hasPermissions, now, received, lastCheck>>

StopDetectionResolved(result) ==
    /\ pending[StopCmd] > 0
    /\ pending' = Settle(StopCmd)
    /\ isDetecting' = FALSE
    /\ status' = result
    /\ lastOp' = [op |-> "resolve", cmd |-> StopCmd, result |-> result]
    /\ UNCHANGED <<hasPermissions, selectedTexts, now, received, lastCheck>>

StopDetectionRejected(error) ==
    /\ pending[StopCmd] > 0
    /\ pending' = Settle(StopCmd)
    /\ status' = "Error: " \o JsString(error)
    /\ lastOp' = [op |-> "reject", cmd |-> StopCmd, error |-> error]
    /\ UNCHANGED <<isDetecting, hasPermissions, selectedTexts, now, received, lastCheck>>

----------------------------------------------------------------------------
(* Specifications *)

Next ==
    \/ \E p \in Payloads : Len(received) < MaxEvents /\ OnTextSelectionChanged(p)
    \/ \E t \in HotkeyTexts : Len(received) < MaxEvents /\ OnHotkeySelectionDetected(t)
    \/ Tick
    \/ ClickRefresh
    \/ \E b \in BOOLEAN : CheckPermissionsResolved(b)
    \/ \E e \in Errors : CheckPermissionsRejected(e)
    \/ ClickStart
    \/ \E r \in StartResults : StartDetectionResolved(r)
    \/ \E e \in Errors : StartDetectionRejected(e)
    \/ ClickStop
    \/ \E r \in StopResults : StopDetectionResolved(r)
    \/ \E e \in Errors : StopDetectionRejected(e)

Spec == Init /\ [][Next]_vars

\* The event listeners alone, for long runs of events: no button is clicked
\* and the call made at mount stays in flight.
NextList ==
    \/ \E p \in Payloads : Len(received) < MaxListEvents /\ OnTextSelectionChanged(p)
    \/ \E t \in HotkeyTexts : Len(received) < MaxListEvents /\ OnHotkeySelectionDetected(t)

SpecList == Init /\ [][NextList]_vars

----------------------------------------------------------------------------
(* Properties *)

\* Substring test on strings.
Contains(s, sub) ==
    \E i \in 1..(Len(s) + 1) : \E j \in (i - 1)..Len(s) : SubSeq(s, i, j) = sub

\* a is an earlier time than b.
TsLess(a, b) == a[1] < b[1] \/ (a[1] = b[1] /\ a[2] < b[2])

IsHotkeyEvent(e) == e.app_name = "Unknown (Hotkey)"

\* C1: whatever events have arrived on the two channels, in whatever order,
\* the displayed list holds at most 10 entries, and exactly
\* min(10, number of events received so far).
C1_ListLength ==
    /\ Len(selectedTexts) <= 10
    /\ Len(selectedTexts) = Min(10, Len(received))

\* Eleven events from both channels have arrived and the list holds ten.
C1_Witness ==
    /\ Len(received) = 11
    /\ Len(selectedTexts) = 10
    /\ \E i \in 1..11 : IsHotkeyEvent(received[i])
    /\ \E i \in 1..11 : received[i] \in Payloads

\* C2: the displayed list is the last min(10, n) events that arrived, newest
\* first, whatever their timestamps; so an event leaves the list when the
\* tenth event after it arrives, and after e1..e11 the list is e11..e2.
C2_NewestFirst ==
    /\ selectedTexts = Reverse(LastN(received, Min(10, Len(received))))
    /\ \A k \in 1..Len(received) :
          IF Len(received) - k < 10
          THEN /\ Len(selectedTexts) >= Len(received) + 1 - k
               /\ selectedTexts[Len(received) + 1 - k] = received[k]
          ELSE Len(selectedTexts) < Len(received) + 1 - k

\* Eleven structured events e1..e11 have arrived, the list is e11..e2, e1
\* differs from every entry kept at its old place, and the newest entry
\* carries an older timestamp than the one below it.
C2_Witness ==
    /\ Len(received) = 11
    /\ \A i \in 1..11 : received[i] \in Payloads
    /\ selectedTexts = [i \in 1..10 |-> received[12 - i]]
    /\ received[1] # received[2]
    /\ TsLess(selectedTexts[1].timestamp, selectedTexts[2].timestamp)

\* C3: an event of the hotkey channel is inserted with the raw payload as
\* its text, the kind "Selected", the application name "Unknown (Hotkey)" and
\* the time of receipt (Date.now() in seconds) as its timestamp; an event of
\* the structured channel is inserted with its four fields as delivered.
C3_Synthesis ==
    /\ lastOp.op = "hotkey" =>
          /\ Len(selectedTexts) >= 1
          /\ DOMAIN selectedTexts[1] = {"text", "app_name", "timestamp", "selection_type"}
          /\ selectedTexts[1].text = lastOp.text
          /\ selectedTexts[1].selection_type = "Selected"
          /\ selectedTexts[1].app_name = "Unknown (Hotkey)"
          /\ selectedTexts[1].timestamp[1] * 1000 + selectedTexts[1].timestamp[2] = lastOp.at
          /\ selectedTexts[1].timestamp[2] \in 0..999
    /\ lastOp.op = "structured" =>
          /\ Len(selectedTexts) >= 1
          /\ selectedTexts[1] = lastOp.payload

\* A hotkey event arrived after the clock had advanced, on top of a
\* structured event.
C3_Witness ==
    /\ lastOp.op = "hotkey"
    /\ lastOp.at > 0
    /\ Len(selectedTexts) = 2
    /\ selectedTexts[1].timestamp # <<0, 0>>
    /\ selectedTexts[2] \in Payloads

\* Which handler step a transition is, read off the history variables.
IssuedStep(cmd) ==
    /\ lastOp'.op = "issue" /\ lastOp'.cmd = cmd
    /\ pending' = Issue(cmd)
ResolvedStep(cmd) ==
    /\ lastOp'.op = "resolve" /\ lastOp'.cmd = cmd
    /\ pending' = Settle(cmd)
RejectedStep(cmd) ==
    /\ lastOp'.op = "reject" /\ lastOp'.cmd = cmd
    /\ pending' = Settle(cmd)
EventStep ==
    /\ lastOp'.op \in {"structured", "hotkey"}
    /\ Len(received') = Len(received) + 1

\* C4 as stated: whenever one of the three backend calls rejects, the status
\* afterwards contains the string form of the rejection reason and
\* isDetecting has the value it had before.
C4_Original ==
    [][\A cmd \in Commands :
          RejectedStep(cmd) =>
              /\ Contains(status', JsString(lastOp'.error))
              /\ isDetecting' = isDetecting]_vars

\* C4, amended: whenever start_text_detection or stop_text_detection
\* rejects, the status afterwards is "Error: " followed by the string form of
\* the rejection reason; whenever check_permissions rejects, the status is
\* the fixed text "Error checking permissions"; in all three cases
\* isDetecting has the value it had before.
C4_Amended ==
    [][\A cmd \in Commands :
          RejectedStep(cmd) =>
              /\ isDetecting' = isDetecting
              /\ cmd \in {StartCmd, StopCmd} =>
                    /\ status' = "Error: " \o JsString(lastOp'.error)
                    /\ Contains(status', JsString(lastOp'.error))
              /\ cmd = CheckCmd => status' = "Error checking permissions"]_vars

\* stop_text_detection has just rejected with an object while detecting.
C4_Witness ==
    /\ lastOp.op = "reject"
    /\ lastOp.cmd = StopCmd
    /\ lastOp.error.type = "object"
    /\ status = "Error: [object Object]"
    /\ isDetecting

\* C5 as stated: after a failed start_text_detection the flag is inactive and
\* after a failed stop_text_detection it is active, in every interleaving.
C5_Original ==
    /\ (lastOp.op = "reject" /\ lastOp.cmd = StartCmd) => ~isDetecting
    /\ (lastOp.op = "reject" /\ lastOp.cmd = StopCmd) => isDetecting

\* C5, amended: a start call is issued only while the flag is inactive and
\* a stop call only while it is active; the flag changes only when a start
\* or stop call succeeds; and a failed start or stop call leaves the flag as
\* it was immediately before the failure was handled. So the flag is inactive
\* after a failed start, and active after a failed stop, exactly when it was
\* so just before: a call that succeeded meanwhile may have changed it.
C5_Amended ==
    /\ [][/\ RejectedStep(StartCmd) => (~isDetecting' <=> ~isDetecting)
          /\ RejectedStep(StopCmd) => (isDetecting' <=> isDetecting)]_vars
    /\ [][/\ IssuedStep(StartCmd) => ~isDetecting
          /\ IssuedStep(StopCmd) => isDetecting]_vars
    /\ [][isDetecting' # isDetecting =>
             \/ ResolvedStep(StartCmd) /\ isDetecting'
             \/ ResolvedStep(StopCmd) /\ ~isDetecting']_vars

\* A start call has just failed and the flag is active: another start call
\* succeeded while this one was in flight.
C5_Witness ==
    /\ lastOp.op = "reject"
    /\ lastOp.cmd = StartCmd
    /\ isDetecting

\* C6: exactly one of the two controls is presented, the start control
\* exactly when the flag is inactive; after start_text_detection resolves the
\* flag is active, the status is the returned string and the stop control is
\* the one shown; after stop_text_detection resolves the flag is inactive, the
\* status is the returned string and the start control is the one shown.
C6_Controls ==
    /\ StartShown # StopShown
    /\ StartShown <=> ~isDetecting
    /\ (lastOp.op = "resolve" /\ lastOp.cmd = StartCmd) =>
          /\ isDetecting
          /\ status = lastOp.result
          /\ StopShown /\ ~StartShown
    /\ (lastOp.op = "resolve" /\ lastOp.cmd = StopCmd) =>
          /\ ~isDetecting
          /\ status = lastOp.result
          /\ StartShown /\ ~StopShown

\* A stop call has just resolved, after a start call had.
C6_Witness ==
    /\ lastOp.op = "resolve"
    /\ lastOp.cmd = StopCmd
    /\ status \in StopResults
    /\ StartShown

C8_CheckPermissions ==
    /\ [](InFlight < MaxInFlight => ENABLED ClickRefresh)
    /\ [][ResolvedStep(CheckCmd) =>
             /\ hasPermissions' = lastOp'.flag
             /\ isDetecting' = isDetecting]_vars
    /\ [][RejectedStep(CheckCmd) =>
             /\ status' = "Error checking permissions"
             /\ hasPermissions' = hasPermissions
             /\ isDetecting' = isDetecting]_vars
    /\ [](PermissionIndicator = IF lastCheck = "true" THEN "Granted" ELSE "Not granted")

\* A check has just been rejected while detection is active, a stop call is
\* in flight and the indicator reads granted.
C8_Witness ==
    /\ lastOp.op = "reject"
    /\ lastOp.cmd = CheckCmd
    /\ isDetecting
    /\ pending[StopCmd] = 1
    /\ hasPermissions

\* C9 as stated: while an issued start_text_detection (stop_text_detection)
\* call has had no response, the status reads "Starting detection..."
\* ("Stopping detection...") in every later state.
C9_Original ==
    /\ (pending[StartCmd] > 0 /\ pending[StopCmd] = 0) => status = "Starting detection..."
    /\ (pending[StopCmd] > 0 /\ pending[StartCmd] = 0) => status = "Stopping detection..."

\* C9, amended: issuing start_text_detection (stop_text_detection) sets the
\* status to "Starting detection..." ("Stopping detection..."), and the
\* status then stays so until another backend call is issued or some call in
\* flight settles: the arrival of events and the passing of time never change
\* the status, and a call in flight leaves only by resolving or rejecting
\* (no timeout, retry or cancellation).
C9_Amended ==
    /\ []((lastOp.op = "issue" /\ lastOp.cmd = StartCmd) => status = "Starting detection...")
    /\ []((lastOp.op = "issue" /\ lastOp.cmd = StopCmd) => status = "Stopping detection...")
    /\ [][pending' = pending => status' = status]_vars
    /\ [][\A cmd \in Commands :
             pending'[cmd] < pending[cmd] =>
                 /\ lastOp'.op \in {"resolve", "reject"}
                 /\ lastOp'.cmd = cmd
                 /\ pending' = Settle(cmd)]_vars

\* A start call is in flight; since it was issued the clock has advanced and
\* a hotkey event has arrived, and the status still reads as at the issue.
C9_Witness ==
    /\ pending[StartCmd] = 1
    /\ status = "Starting detection..."
    /\ lastOp.op = "hotkey"
    /\ lastOp.at > 0

\* C10: an event of either channel can be received in every state and is put
\* at the head of the list whatever the detection flag and the permission
\* indicator are, and leaves the flag, the indicator and the status as they
\* were; issuing, resolving or rejecting a backend call leaves the list as it
\* was.
C10_Frame ==
    /\ [](/\ \A p \in Payloads : ENABLED OnTextSelectionChanged(p)
          /\ \A t \in HotkeyTexts : ENABLED OnHotkeySelectionDetected(t))
    /\ [][EventStep =>
             /\ selectedTexts'[1] = received'[Len(received')]
             /\ isDetecting' = isDetecting
             /\ hasPermissions' = hasPermissions
             /\ status' = status]_vars
    /\ [][\A cmd \in Commands :
             (IssuedStep(cmd) \/ ResolvedStep(cmd) \/ RejectedStep(cmd)) =>
                 selectedTexts' = selectedTexts]_vars

\* A structured event was recorded after a successful stop, with one event
\* recorded before it.
C10_Witness ==
    /\ lastOp.op = "structured"
    /\ ~isDetecting
    /\ status \in StopResults
    /\ Len(selectedTexts) = 2

====
